---- MODULE Spec2Model ----
(***************************************************************************)
(* The intake pipeline of backend/app.py (create_patient) with the audit   *)
(* trail (log_security_event), the extraction gate (protection.py) and the *)
(* identity codec and upsert (patient_encryption_with_PSI.py).             *)
(*                                                                         *)
(* A request is handled by a worker in the steps of create_patient: body   *)
(* validation, poisoning check, extraction check, prediction, encrypted    *)
(* record upsert, plaintext summary insert.  The scorers, the encryption   *)
(* library and the store are collaborators: each call either returns one   *)
(* of a few scores or fails.  Scores are in hundredths (0.5 is 50).        *)
(*                                                                         *)
(* Spec handles requests one after another, SpecAudit does so with every   *)
(* audit write free to fail, SpecConcurrent runs two requests for one      *)
(* patient at the same time, and SpecLinkage is the hospital side: the     *)
(* upload of the two hospital files, the hash intersection and the lookup  *)
(* of mpc_predict.                                                         *)
(***************************************************************************)
EXTENDS Integers, Sequences, FiniteSets, TLC

VARIABLES
    run,            \* per worker: position in create_patient, locals, response
    patients,       \* collection "patients": sequence of documents
    patients_plain, \* collection "patients_plain": sequence of documents
    security_logs,  \* collection "security_logs": sequence of documents
    nsub,           \* submissions received so far
    faults,         \* collaborator failures so far
    hospital_a_patients,  \* collection "hospital_a_patients"
    hospital_b_patients,  \* collection "hospital_b_patients"
    call            \* the last linkage operation: its arguments and its result

\* The collections and the operation of the hospital linkage.
linkage == <<hospital_a_patients, hospital_b_patients, call>>

vars == <<run, patients, patients_plain, security_logs, nsub, faults,
          hospital_a_patients, hospital_b_patients, call>>

\* Bounds of the exploration.
MaxSubmissions == 2
MaxFaults == 1

Workers == {"w1", "w2"}
SeqWorkers == {"w1"}

(***************************************************************************)
(* Configuration loaded at start                                           *)
(***************************************************************************)
\* poisoning_threshold is threshold_used of the poisoning metadata (0.5 when
\* absent); threshold is the reconstruction-error threshold of the protection
\* configuration, whose value the repository does not hold: 10 stands for it.
poisoning_threshold == 50
threshold == 10
PredictionCutoff == 50

required ==
    <<"NIC", "Name", "gender", "age", "hypertension",
      "heart_disease", "bmi", "HbA1c_level", "blood_glucose_level">>

\* feature_columns of the poisoning metadata: the seven medical columns.
feature_order ==
    <<"gender", "age", "hypertension", "heart_disease",
      "bmi", "HbA1c_level", "blood_glucose_level">>

Range(s) == {s[i] : i \in DOMAIN s}

(***************************************************************************)
(* Submitted values.  A JSON object is a function from its keys to its     *)
(* values; values are the strings the client sent.                         *)
(***************************************************************************)
NICs == {"199012345V", "200055501V"}
BlankStrings == {"", "  "}
NumericStrings == {"0", "1", "45", "22.5", "31.0", "5.5", "120"}

\* str(v).strip() == ""
StripsToEmpty(v) == v \in BlankStrings

\* float(v) succeeds
CanFloat(v) == v \in NumericStrings

EmptyObject == [f \in {} |-> ""]

Patient(nic, bmi) ==
    [NIC |-> nic, Name |-> "Alice", gender |-> "1", age |-> "45",
     hypertension |-> "0", heart_disease |-> "0", bmi |-> bmi,
     HbA1c_level |-> "5.5", blood_glucose_level |-> "120"]

Without(d, key) == [f \in (DOMAIN d) \ {key} |-> d[f]]

\* Address is optional: the second patient sends one, the first does not.
Submitted(nic, bmi) ==
    IF nic = "200055501V"
    THEN [f \in {"Address"} |-> "12 Lake Road"] @@ Patient(nic, bmi)
    ELSE Patient(nic, bmi)

\* request.get_json(silent=True): "none" is an absent, unparsable or falsy
\* body; "scalar" is a truthy JSON value that is no container (5, true);
\* "object" is a JSON object.
Bodies ==
    {[kind |-> "none", data |-> EmptyObject],
     [kind |-> "scalar", data |-> EmptyObject]}
    \cup {[kind |-> "object", data |-> Submitted(n, b)] :
             n \in NICs, b \in {"22.5", "31.0"}}
    \cup {[kind |-> "object", data |-> Without(Patient("199012345V", "22.5"), "NIC")],
          [kind |-> "object", data |-> [Patient("199012345V", "22.5") EXCEPT !.bmi = "  "]],
          [kind |-> "object", data |-> [Patient("199012345V", "22.5") EXCEPT !.bmi = "abc"]]}

(***************************************************************************)
(* Scores the collaborators can return                                     *)
(***************************************************************************)
PoisonProbs == {poisoning_threshold, 90}
Mses == {threshold, threshold + 5}
Probs == {49, PredictionCutoff, 73}

\* detect_attack with the comparison made inclusive.
detect_attack_inclusive(mse) == mse >= threshold

\* Predict with the comparison made strict.
PredictStrict(prob) == IF prob > PredictionCutoff THEN 1 ELSE 0

\* _run_poisoning_check, on the classifier's probability for the vector
run_poisoning_check(prob) == prob > poisoning_threshold

\* detect_attack, on the reconstruction error of the scaled vector
detect_attack(mse) == mse > threshold

\* pred = int(prob >= 0.5)
Predict(prob) == IF prob >= PredictionCutoff THEN 1 ELSE 0

PredictionLabel(pred) == IF pred = 1 THEN "Diabetic" ELSE "Non-Diabetic"

(***************************************************************************)
(* Identity codec                                                          *)
(***************************************************************************)
IdentityFields == {"NIC", "Name", "Address"}

\* hash_text with the text stripped of blanks before it is hashed.
hash_text_stripped(text) ==
    "sha256(" \o (IF StripsToEmpty(text) THEN "" ELSE text) \o ")"

\* The digest of a string: SHA-256 is taken to be free of collisions.
hash_text(text) == "sha256(" \o text \o ")"

\* Values callers hand to hash_text: strings, and the number a NIC of digits
\* is once JSON or pandas has read it.
PyValues ==
    {[type |-> "str", str |-> t] : t \in NICs \cup BlankStrings \cup {"123"}}
    \cup {[type |-> "int", int |-> 123]}

\* str(v)
PyStr(v) == IF v.type = "int" THEN ToString(v.int) ELSE v.str

\* hash_text(v) = sha256(str(v).encode()).hexdigest()
hash_text_of(v) == hash_text(PyStr(v))

\* The BFV ciphertext of the digest reduced modulo the plain modulus.
encrypt_vector(value) == "bfv(" \o hash_text(value) \o " mod 65537)"

(***************************************************************************)
(* Store                                                                   *)
(***************************************************************************)
Matching(coll, nic_hashed) == {i \in DOMAIN coll : coll[i].NIC_Hashed = nic_hashed}

Min(S) == CHOOSE x \in S : \A y \in S : x <= y

\* find_one_and_update({"NIC_Hashed": h}, {"$set": doc}, upsert=True)
find_one_and_update(coll, nic_hashed, doc) ==
    IF Matching(coll, nic_hashed) = {}
    THEN Append(coll, doc)
    ELSE [coll EXCEPT ![Min(Matching(coll, nic_hashed))] = doc]

\* The record create_patient builds from the body and the predicted label.
Record(data, pred) ==
    [NIC |-> data["NIC"], Name |-> data["Name"],
     Address |-> IF "Address" \in DOMAIN data THEN data["Address"] ELSE "",
     gender |-> data["gender"], age |-> data["age"],
     hypertension |-> data["hypertension"], heart_disease |-> data["heart_disease"],
     bmi |-> data["bmi"], HbA1c_level |-> data["HbA1c_level"],
     blood_glucose_level |-> data["blood_glucose_level"], diabetes |-> pred]

patient_document(record) ==
    [NIC_Hashed |-> hash_text(record.NIC),
     NIC_Encrypted |-> encrypt_vector(record.NIC),
     Name_Encrypted |-> encrypt_vector(record.Name),
     Address_Encrypted |-> encrypt_vector(record.Address),
     gender |-> record.gender, age |-> record.age,
     hypertension |-> record.hypertension, heart_disease |-> record.heart_disease,
     bmi |-> record.bmi, HbA1c_level |-> record.HbA1c_level,
     blood_glucose_level |-> record.blood_glucose_level, diabetes |-> record.diabetes]

\* update_patient_record with the test of the three ciphertexts lost: the
\* document is written with None where encrypt_vector failed.
update_patient_record_unchecked(coll, record, failed) ==
    find_one_and_update(coll, hash_text(record.NIC),
        [patient_document(record) EXCEPT
            !.NIC_Encrypted = IF "NIC" \in failed THEN "None" ELSE @,
            !.Name_Encrypted = IF "Name" \in failed THEN "None" ELSE @,
            !.Address_Encrypted = IF "Address" \in failed THEN "None" ELSE @])

\* update_patient_record after the context is loaded: `failed` is the set of
\* identity fields for which encrypt_vector returned None.
update_patient_record(coll, record, failed) ==
    IF failed # {}
    THEN coll
    ELSE find_one_and_update(coll, hash_text(record.NIC), patient_document(record))

\* plain_summary with the hashing of the NIC lost.
plain_summary_unhashed(record) ==
    [NIC_Hashed |-> record.NIC, name |-> record.Name,
     diabetes |-> record.diabetes]

\* The document create_patient inserts into patients_plain.
plain_summary(record) ==
    [NIC_Hashed |-> hash_text(record.NIC), name |-> record.Name,
     diabetes |-> record.diabetes]

(***************************************************************************)
(* Audit trail                                                             *)
(***************************************************************************)
LogEntry(event_type, is_attack, mse, info) ==
    [event_type |-> event_type, is_attack |-> is_attack, mse |-> mse,
     additional_info |-> info]

\* log_security_event overwriting the collection with the new entry.
log_security_event_replacing(logs, entry, stored) ==
    IF stored THEN <<entry>> ELSE logs

\* log_security_event: `stored` is false when the store is unavailable or
\* insert_one raises; the exception is swallowed.
log_security_event(logs, entry, stored) ==
    IF stored THEN Append(logs, entry) ELSE logs

(***************************************************************************)
(* One run of create_patient                                               *)
(***************************************************************************)
\* No linkage operation has run yet.
NoCall == [op |-> "none"]

StageOrder == <<"poisoning", "extraction", "prediction", "persistence">>

\* A worker before its first request.  status, error, keys and prediction are
\* the response: its code, its error text, the keys of its JSON body and its
\* label.  poison_prob is the poisoning classifier's probability and
\* context_loads the calls of load_context.  caught is the except block that handled an exception, enc_failed
\* the identity fields encrypt_vector returned None for.  attempted, logged,
\* lost, wrote and before record what the run has done: the stages it called,
\* the audit entries it appended, the audit writes that failed, the
\* collections it wrote and the collections as they were when the request
\* arrived.
NewRun ==
    [pc |-> "idle", kind |-> "none", data |-> EmptyObject,
     poisoning_flag |-> "unset", is_attack |-> "unset", mse |-> 0,
     prob |-> -1, pred |-> -1,
     status |-> 0, error |-> "", keys |-> {}, prediction |-> "",
     caught |-> "", enc_failed |-> {},
     poison_prob |-> -1, context_loads |-> 0,
     attempted |-> <<>>, logged |-> <<>>, lost |-> 0, wrote |-> {},
     before |-> [patients |-> <<>>, patients_plain |-> <<>>]]

B2N(b) == IF b THEN 1 ELSE 0
Flag(b) == IF b THEN "True" ELSE "False"

\* Reply with the return lost: the response is built and the run stays where
\* it is.
ReplyWithoutReturn(rec, status, error) ==
    [rec EXCEPT !.status = status, !.error = error, !.keys = {"ok", "error"}]

\* Reply with a failed audit write turning the answer into a 500.
ReplyFailingOnAuditLoss(rec, status, error) ==
    [rec EXCEPT !.pc = "done",
                !.status = IF rec.lost > 0 THEN 500 ELSE status,
                !.error = IF rec.lost > 0 THEN "Internal server error" ELSE error,
                !.keys = {"ok", "error"}]

\* return jsonify(...), status
Reply(rec, status, error) ==
    [rec EXCEPT !.pc = "done", !.status = status, !.error = error,
                !.keys = {"ok", "error"}]

\* The keys of a response body that is not {ok, error}.
Body(rec, keys) == [rec EXCEPT !.keys = keys]

\* except Exception as e: `handler` names the try block whose handler runs.
Catch(rec, handler) == [rec EXCEPT !.caught = handler]

\* str(e) of the exception a collaborator raises.
ExceptionText == "X has 6 features, but StandardScaler is expecting 7"

\* raise RuntimeError(f"Poisoning check failed: {e}") in _run_poisoning_check
poisoning_RuntimeError(e) == "Poisoning check failed: " \o e

Attempt(rec, stage) == [rec EXCEPT !.attempted = Append(@, stage)]

Audit(rec, entry, stored) ==
    [rec EXCEPT !.logged = IF stored THEN Append(@, entry.event_type) ELSE @,
                !.lost = @ + B2N(~stored)]

\* n more collaborator failures, within the bound
Fault(n) == faults + n <= MaxFaults /\ faults' = faults + n

\* missing = [f for f in required if f not in data or str(data[f]).strip() == ""]
Missing(data) ==
    SelectSeq(required, LAMBDA f : f \notin DOMAIN data \/ StripsToEmpty(data[f]))

\* _coerce_feature raises for some feature of feature_order
CoercionFails(data) == \E f \in Range(feature_order) : ~CanFloat(data[f])

\* Continue with the extraction check left out of the sequence.
ContinueSkippingExtraction(pc) ==
    CASE pc = "poison" -> "predict"
      [] pc = "extract" -> "predict"
      [] pc = "predict" -> "persist"
      [] pc = "persist" -> "summary"

\* Continue going back to the stage that has just run.
ContinueRetrying(pc) == pc

\* The statement executed after a stage that lets the run go on.
Continue(pc) ==
    CASE pc = "poison" -> "extract"
      [] pc = "extract" -> "predict"
      [] pc = "predict" -> "persist"
      [] pc = "persist" -> "summary"

\* Rejects with the test of the flag inverted.
RejectsInverted(flag) == ~flag

\* Rejects with the test of the flag lost.
RejectsNever(flag) == FALSE

\* if poisoning_flag: return ..., 403   /   if is_attack: return ..., 403
Rejects(flag) == flag

\* The handler of the outer try: one system_error entry, then 500.
UnhandledError(r, rec) ==
    \E stored \in BOOLEAN :
        LET e == LogEntry("system_error", FALSE, 0, "error") IN
        /\ Fault(B2N(~stored))
        /\ security_logs' = log_security_event(security_logs, e, stored)
        /\ run' = [run EXCEPT ![r] =
                      Reply(Audit(Catch(rec, "outer"), e, stored),
                            500, "Internal server error")]

\* Lines 294-306: the body is read and validated.
Receive(r) ==
    /\ run[r].pc \in {"idle", "done"}
    /\ nsub < MaxSubmissions
    /\ nsub' = nsub + 1
    /\ \E b \in Bodies :
        LET fresh == [NewRun EXCEPT !.kind = b.kind, !.data = b.data,
                         !.before = [patients |-> patients,
                                     patients_plain |-> patients_plain]]
        IN  \/ /\ b.kind = "none"
               /\ run' = [run EXCEPT ![r] =
                             Reply(fresh, 400, "Invalid or missing JSON body")]
               /\ UNCHANGED <<security_logs, faults>>
            \/ /\ b.kind = "scalar"
               \* `f not in data` raises TypeError
               /\ UnhandledError(r, fresh)
            \/ /\ b.kind = "object"
               /\ run' = [run EXCEPT ![r] =
                             IF Missing(b.data) # <<>>
                             THEN Reply(fresh, 400, "Missing fields")
                             ELSE [fresh EXCEPT !.pc = "poison"]]
               /\ UNCHANGED <<security_logs, faults>>
    /\ UNCHANGED <<patients, patients_plain, linkage>>

\* Lines 308-335: the poisoning check, its audit entry, the 403.
PoisoningCheck(r) ==
    /\ run[r].pc = "poison"
    /\ \E stored \in BOOLEAN :
        LET rec == Attempt(run[r], "poisoning") IN
        \/ \E prob \in PoisonProbs :
            LET flag == run_poisoning_check(prob)
                e == LogEntry("poisoning_check", flag, 0, "threshold")
                rec2 == Audit([rec EXCEPT !.poisoning_flag = Flag(flag),
                                          !.poison_prob = prob], e, stored)
            IN  /\ Fault(B2N(~stored))
                /\ security_logs' = log_security_event(security_logs, e, stored)
                /\ run' = [run EXCEPT ![r] =
                              IF Rejects(flag)
                              THEN Body(Reply(rec2, 403, "Model poisoning detected"),
                                        {"ok", "error", "alert"})
                              ELSE [rec2 EXCEPT !.pc = Continue("poison")]]
        \/ LET e == LogEntry("poisoning_check_error", TRUE, 0, "error")
               rec2 == Audit(Catch([rec EXCEPT !.poisoning_flag = "raised"],
                                   "poisoning"), e, stored)
           IN  /\ Fault(1 + B2N(~stored))
               /\ security_logs' = log_security_event(security_logs, e, stored)
               /\ run' = [run EXCEPT ![r] =
                             Reply(rec2, 500,
                                   "Poisoning check failed: "
                                       \o poisoning_RuntimeError(ExceptionText))]
    /\ UNCHANGED <<patients, patients_plain, nsub, linkage>>

\* Lines 337-369: the vector is coerced, then the extraction check.
ExtractionCheck(r) ==
    /\ run[r].pc = "extract"
    /\ IF CoercionFails(run[r].data)
       THEN UnhandledError(r, run[r])
       ELSE \E stored \in BOOLEAN :
            LET rec == Attempt(run[r], "extraction") IN
            \/ \E mse \in Mses :
                LET attack == detect_attack(mse)
                    e == LogEntry("extraction_check", attack, mse, "detection_threshold")
                    rec2 == Audit([rec EXCEPT !.is_attack = Flag(attack), !.mse = mse],
                                  e, stored)
                IN  /\ Fault(B2N(~stored))
                    /\ security_logs' = log_security_event(security_logs, e, stored)
                    /\ run' = [run EXCEPT ![r] =
                                  IF Rejects(attack)
                                  THEN Body(Reply(rec2, 403,
                                                  "Model extraction attack detected"),
                                            {"ok", "error", "alert", "mse"})
                                  ELSE [rec2 EXCEPT !.pc = Continue("extract")]]
            \/ LET e == LogEntry("extraction_check_error", TRUE, 0, "error")
                   rec2 == Audit(Catch([rec EXCEPT !.is_attack = "raised"],
                                       "extraction"), e, stored)
               IN  /\ Fault(1 + B2N(~stored))
                   /\ security_logs' = log_security_event(security_logs, e, stored)
                   /\ run' = [run EXCEPT ![r] =
                                 Reply(rec2, 500, "Extraction check failed")]
    /\ UNCHANGED <<patients, patients_plain, nsub, linkage>>

\* Lines 371-400: the prediction and its audit entry.
Prediction(r) ==
    /\ run[r].pc = "predict"
    /\ \E stored \in BOOLEAN :
        LET rec == Attempt(run[r], "prediction") IN
        \/ \E prob \in Probs :
            LET pred == Predict(prob)
                e == LogEntry("prediction_success", FALSE, run[r].mse,
                              IF pred = 1 THEN "diabetic" ELSE "non_diabetic")
                rec2 == Audit([rec EXCEPT !.prob = prob, !.pred = pred], e, stored)
            IN  /\ Fault(B2N(~stored))
                /\ security_logs' = log_security_event(security_logs, e, stored)
                /\ run' = [run EXCEPT ![r] = [rec2 EXCEPT !.pc = Continue("predict")]]
        \/ LET e == LogEntry("prediction_error", FALSE, 0, "error")
               rec2 == Audit(Catch(rec, "prediction"), e, stored)
           IN  /\ Fault(1 + B2N(~stored))
               /\ security_logs' = log_security_event(security_logs, e, stored)
               /\ run' = [run EXCEPT ![r] = Reply(rec2, 500, "Prediction failed")]
    /\ UNCHANGED <<patients, patients_plain, nsub, linkage>>

\* Lines 402-441: the record is built and handed to update_patient_record.
\* raised: load_context, get_collection or find_one_and_update raises;
\* failed: the identity fields encrypt_vector could not encrypt.
SaveRecord(r) ==
    /\ run[r].pc = "persist"
    /\ \E stored \in BOOLEAN, raised \in BOOLEAN, failed \in SUBSET IdentityFields :
        LET rec == [Attempt(run[r], "persistence") EXCEPT !.context_loads = @ + 1]
            record == Record(run[r].data, run[r].pred)
        IN  /\ raised => failed = {}
            /\ Fault(B2N(raised) + B2N(failed # {}) + B2N(~stored))
            /\ IF raised
               THEN LET e == LogEntry("record_creation_error", FALSE, 0, "error") IN
                    /\ security_logs' = log_security_event(security_logs, e, stored)
                    /\ run' = [run EXCEPT ![r] =
                                  Reply(Audit(Catch(rec, "persistence"), e, stored),
                                        500, "Failed to save record")]
                    /\ UNCHANGED patients
               ELSE LET e == LogEntry("record_created", FALSE, 0, record.Name)
                        rec2 == Audit(rec, e, stored)
                    IN  /\ patients' = update_patient_record(patients, record, failed)
                        /\ security_logs' = log_security_event(security_logs, e, stored)
                        /\ run' = [run EXCEPT ![r] =
                                      [rec2 EXCEPT !.pc = Continue("persist"),
                                                   !.enc_failed = failed,
                                                   !.wrote = IF failed = {}
                                                             THEN @ \cup {"record"}
                                                             ELSE @]]
    /\ UNCHANGED <<patients_plain, nsub, linkage>>

\* Lines 443-461: the plaintext summary is inserted, then 201.
InsertSummary(r) ==
    /\ run[r].pc = "summary"
    /\ \E inserted \in BOOLEAN :
        LET record == Record(run[r].data, run[r].pred)
            rec == [run[r] EXCEPT !.prediction = PredictionLabel(run[r].pred),
                                  !.wrote = IF inserted THEN @ \cup {"summary"} ELSE @]
        IN  /\ Fault(B2N(~inserted))
            /\ patients_plain' = IF inserted
                                 THEN Append(patients_plain, plain_summary(record))
                                 ELSE patients_plain
            /\ run' = [run EXCEPT ![r] =
                          Body(Reply(rec, 201, ""), {"ok", "message", "prediction"})]
    /\ UNCHANGED <<patients, security_logs, nsub, linkage>>

Init ==
    /\ run = [r \in Workers |-> NewRun]
    /\ patients = <<>>
    /\ patients_plain = <<>>
    /\ security_logs = <<>>
    /\ nsub = 0
    /\ faults = 0
    /\ hospital_a_patients = <<>>
    /\ hospital_b_patients = <<>>
    /\ call = NoCall

\* One worker: requests are handled one after another.
Next ==
    \E r \in SeqWorkers :
        \/ Receive(r)
        \/ PoisoningCheck(r)
        \/ ExtractionCheck(r)
        \/ Prediction(r)
        \/ SaveRecord(r)
        \/ InsertSummary(r)

Spec == Init /\ [][Next]_vars

\* Requests one after another where every audit write of a run may fail: the
\* failures allowed are one for each stage of a run, over two requests.
InitAudit ==
    /\ run = [r \in Workers |-> NewRun]
    /\ patients = <<>>
    /\ patients_plain = <<>>
    /\ security_logs = <<>>
    /\ nsub = MaxSubmissions - 2
    /\ faults = MaxFaults - Len(StageOrder)
    /\ hospital_a_patients = <<>>
    /\ hospital_b_patients = <<>>
    /\ call = NoCall

SpecAudit == InitAudit /\ [][Next]_vars

\* Two workers handle one request each, at the same time: both requests are
\* complete and for the first patient, and they differ in the bmi.  Each run
\* may meet one collaborator failure.
InitConcurrent ==
    /\ run = [r \in Workers |-> NewRun]
    /\ patients = <<>>
    /\ patients_plain = <<>>
    /\ security_logs = <<>>
    /\ nsub = MaxSubmissions - Cardinality(Workers)
    /\ faults = MaxFaults - Cardinality(Workers)
    /\ hospital_a_patients = <<>>
    /\ hospital_b_patients = <<>>
    /\ call = NoCall

Version(r) == IF r = "w1" THEN "22.5" ELSE "31.0"

ReceiveSamePatient(r) ==
    /\ run[r].pc = "idle"
    /\ Receive(r)
    /\ run'[r].pc = "poison"
    /\ run'[r].data = Submitted("199012345V", Version(r))

NextConcurrent ==
    \E r \in Workers :
        \/ ReceiveSamePatient(r)
        \/ PoisoningCheck(r)
        \/ ExtractionCheck(r)
        \/ Prediction(r)
        \/ SaveRecord(r)
        \/ InsertSummary(r)

SpecConcurrent == InitConcurrent /\ [][NextConcurrent]_vars

(***************************************************************************)
(* Hospital linkage: encrypt_and_upload.py, test_psi_encrypted.py and      *)
(* mpc_predict of app.py.  A CSV file is the sequence of its rows; of the  *)
(* medical columns only diabetes is kept.                                  *)
(***************************************************************************)
CsvNICs == {"199012345V", "200100001V", "200200001V"}

Row(nic) ==
    [NIC |-> nic, Name |-> "John Smith", Address |-> "123 Main Street, Colombo",
     diabetes |-> 0]

\* Files with one row, with rows in either order, with a row repeated.
CsvFiles ==
    {<<Row("199012345V")>>,
     <<Row("200100001V")>>,
     <<Row("199012345V"), Row("200100001V")>>,
     <<Row("200100001V"), Row("199012345V")>>,
     <<Row("199012345V"), Row("200100001V"), Row("199012345V")>>,
     <<Row("200200001V"), Row("199012345V")>>,
     <<Row("199012345V"), Row("199012345V"), Row("200200001V")>>}

\* create_hospital_datasets.py: ten NICs are in both hospitals, forty more
\* in each.
common_nics ==
    <<"199012345V", "199123456V", "199234567V", "199345678V", "199456789V",
      "199567890V", "199678901V", "199789012V", "199890123V", "199901234V">>

hospital_a_unique_nics == [i \in 1..40 |-> "200" \o ToString(100000 + i) \o "V"]
hospital_b_unique_nics == [i \in 1..40 |-> "200" \o ToString(200000 + i) \o "V"]

hospital_a_nics == common_nics \o hospital_a_unique_nics
hospital_b_nics == common_nics \o hospital_b_unique_nics

hospital_A_csv == [i \in DOMAIN hospital_a_nics |-> Row(hospital_a_nics[i])]
hospital_B_csv == [i \in DOMAIN hospital_b_nics |-> Row(hospital_b_nics[i])]

\* Two files of three patients that share two.
ThreeRowsA == <<Row("200100001V"), Row("199012345V"), Row("199123456V")>>
ThreeRowsB == <<Row("199012345V"), Row("199123456V"), Row("200200001V")>>

\* The pairs of files main of test_psi_encrypted.py is run on.
DemoInputs ==
    (CsvFiles \X CsvFiles)
    \cup {<<hospital_A_csv, hospital_B_csv>>, <<ThreeRowsA, ThreeRowsB>>}

\* The document upload_encrypted_data builds for a row: no raw NIC.
hospital_document(row) ==
    [NIC_Hashed |-> hash_text(row.NIC),
     NIC_Encrypted |-> encrypt_vector(row.NIC),
     Name_Encrypted |-> encrypt_vector(row.Name),
     Address_Encrypted |-> encrypt_vector(row.Address),
     diabetes |-> row.diabetes]

\* set(list)
PySet(list) == {list[i] : i \in DOMAIN list}

\* intersection returning what is in either operand.
intersection_union(A, B) == A \cup B

\* intersection returning its left operand.
intersection_left(A, B) == A

\* A.intersection(B)
intersection(A, B) == A \cap B

\* find_one({field: value}): the positions of the documents that match.
find_one(coll, field, value) ==
    {i \in DOMAIN coll : field \in DOMAIN coll[i] /\ coll[i][field] = value}

\* upload_encrypted_data: each collection is cleared and filled from its
\* file, then the common patients are counted.
Upload ==
    /\ \E rows_a \in CsvFiles, rows_b \in CsvFiles :
        LET col_a == [i \in DOMAIN rows_a |-> hospital_document(rows_a[i])]
            col_b == [i \in DOMAIN rows_b |-> hospital_document(rows_b[i])]
            hashes_a == PySet([i \in DOMAIN col_a |-> col_a[i].NIC_Hashed])
            hashes_b == PySet([i \in DOMAIN col_b |-> col_b[i].NIC_Hashed])
        IN  /\ hospital_a_patients' = col_a
            /\ hospital_b_patients' = col_b
            /\ call' = [op |-> "upload_encrypted_data",
                        common |-> intersection(hashes_a, hashes_b)]
    /\ UNCHANGED <<run, patients, patients_plain, security_logs, nsub, faults>>

\* main of test_psi_encrypted.py, from the two files to common_hashed_nics.
PsiDemo ==
    /\ \E files \in DemoInputs :
        LET rows_a == files[1]
            rows_b == files[2]
            hashed_nics_a == [i \in DOMAIN rows_a |-> hash_text(rows_a[i].NIC)]
            hashed_nics_b == [i \in DOMAIN rows_b |-> hash_text(rows_b[i].NIC)]
        IN  call' = [op |-> "psi_demo",
                     hashed_nics_a |-> hashed_nics_a,
                     hashed_nics_b |-> hashed_nics_b,
                     common_hashed_nics |->
                         intersection(PySet(hashed_nics_a), PySet(hashed_nics_b))]
    /\ UNCHANGED <<run, patients, patients_plain, security_logs, nsub, faults,
                   hospital_a_patients, hospital_b_patients>>

\* mpc_predict up to the 404: hospital A is searched, then hospital B.
MpcPredict ==
    /\ \E nic \in CsvNICs :
        LET in_a == find_one(hospital_a_patients, "NIC", nic)
            in_b == find_one(hospital_b_patients, "NIC", nic)
        IN  call' = [op |-> "mpc_predict", nic |-> nic,
                     status |-> IF in_a \cup in_b = {} THEN 404 ELSE 200]
    /\ UNCHANGED <<run, patients, patients_plain, security_logs, nsub, faults,
                   hospital_a_patients, hospital_b_patients>>

\* hash_text applied to two values.
HashText ==
    /\ \E v1 \in PyValues, v2 \in PyValues :
        call' = [op |-> "hash_text", v1 |-> v1, v2 |-> v2,
                 h1 |-> hash_text_of(v1), h2 |-> hash_text_of(v2)]
    /\ UNCHANGED <<run, patients, patients_plain, security_logs, nsub, faults,
                   hospital_a_patients, hospital_b_patients>>

\* get_hospital_data for both hospitals: doc['NIC'] raises KeyError for a
\* document without a NIC, and the handler answers 500.
GetHospitalData ==
    /\ LET HasNIC(coll) == \A i \in DOMAIN coll : "NIC" \in DOMAIN coll[i]
           nics(coll) == [i \in DOMAIN coll |-> coll[i]["NIC"]]
       IN  call' = IF HasNIC(hospital_a_patients) /\ HasNIC(hospital_b_patients)
                   THEN [op |-> "get_hospital_data", status |-> 200,
                         all_nics_a |-> nics(hospital_a_patients),
                         all_nics_b |-> nics(hospital_b_patients)]
                   ELSE [op |-> "get_hospital_data", status |-> 500,
                         all_nics_a |-> <<>>, all_nics_b |-> <<>>]
    /\ UNCHANGED <<run, patients, patients_plain, security_logs, nsub, faults,
                   hospital_a_patients, hospital_b_patients>>

\* Arrays of raw identifiers a client posts to /api/mpc/psi.
NicArrays ==
    {<<>>, <<"199012345V">>, <<"199012345V", "200100001V">>,
     <<"200200001V", "199012345V", "199012345V">>}

\* run_psi(nics_a, nics_b, already_hashed=False): the identifiers of nics_a
\* whose hash is the hash of an identifier of nics_b.
run_psi(nics_a, nics_b) ==
    {n \in PySet(nics_a) :
        hash_text(n) \in PySet([j \in DOMAIN nics_b |-> hash_text(nics_b[j])])}

\* perform_psi: 400 for no body or an empty array, else the result of run_psi.
PerformPsi ==
    /\ \/ call' = [op |-> "perform_psi", body |-> "none", status |-> 400]
       \/ \E nics_a \in NicArrays, nics_b \in NicArrays :
            call' = IF nics_a = <<>> \/ nics_b = <<>>
                    THEN [op |-> "perform_psi", body |-> "object",
                          nics_a |-> nics_a, nics_b |-> nics_b, status |-> 400]
                    ELSE LET common == run_psi(nics_a, nics_b) IN
                         [op |-> "perform_psi", body |-> "object",
                          nics_a |-> nics_a, nics_b |-> nics_b, status |-> 200,
                          common_count |-> Cardinality(common),
                          common_nics |-> common]
    /\ UNCHANGED <<run, patients, patients_plain, security_logs, nsub, faults,
                   hospital_a_patients, hospital_b_patients>>

NextLinkage ==
    Upload \/ PsiDemo \/ MpcPredict \/ HashText \/ GetHospitalData \/ PerformPsi

SpecLinkage == Init /\ [][NextLinkage]_vars

(***************************************************************************)
(* The feature vector of _run_poisoning_check.  The encoders come from the *)
(* poisoning metadata, which the repository does not hold: gender has a    *)
(* table and hypertension an ordinal list, the two forms the code handles. *)
(* Numbers are in hundredths.                                              *)
(***************************************************************************)
encoders ==
    [gender |-> [kind |-> "dict", dict |-> [k \in {"Female", "Male"} |->
                                              IF k = "Male" THEN 1 ELSE 0]],
     hypertension |-> [kind |-> "list", list |-> <<"no", "yes">>]]

\* What a client can send for a feature: strings, a JSON array, or no key.
FeatureValues ==
    {[type |-> "str", str |-> t] : t \in {"Male", "yes", "Other", "45", "abc"}}
    \cup {[type |-> "list"], [type |-> "absent"]}

PyInt(n) == [type |-> "int", int |-> n]

\* float(v) of a numeric string
PyFloat(t) ==
    CASE t = "0" -> 0 [] t = "1" -> 100 [] t = "45" -> 4500 [] t = "22.5" -> 2250
      [] t = "31.0" -> 3100 [] t = "5.5" -> 550 [] t = "120" -> 12000

\* feature_dict.get(col, 0)
GetFeature(feature_dict, col) ==
    IF feature_dict[col].type = "absent" THEN PyInt(0) ELSE feature_dict[col]

\* The index of val in the list, from 0.
ListIndex(list, val) == Min({i \in DOMAIN list : list[i] = val}) - 1

\* The value after the encoder of the column: "TypeError" when a table is
\* asked for an unhashable key.
Encode(col, val) ==
    IF col \notin DOMAIN encoders THEN val
    ELSE IF encoders[col].kind = "dict"
         THEN IF val.type = "list" THEN [type |-> "TypeError"]
              ELSE IF val.type = "str" /\ val.str \in DOMAIN encoders[col].dict
                   THEN PyInt(encoders[col].dict[val.str])
                   ELSE PyInt(0)
         ELSE IF val.type = "str" /\ val.str \in Range(encoders[col].list)
              THEN PyInt(ListIndex(encoders[col].list, val.str))
              ELSE PyInt(0)

\* try: float(val) except Exception: 0.0
FloatOrZero(val) ==
    IF val.type = "int" THEN val.int * 100
    ELSE IF val.type = "str" /\ CanFloat(val.str) THEN PyFloat(val.str)
    ELSE 0

\* The loop of _run_poisoning_check over feature_order.
build_features(feature_dict) ==
    LET encoded == [i \in DOMAIN feature_order |->
                       Encode(feature_order[i], GetFeature(feature_dict, feature_order[i]))]
    IN  IF \E i \in DOMAIN encoded : encoded[i].type = "TypeError"
        THEN [raised |-> TRUE, features |-> <<>>]
        ELSE [raised |-> FALSE,
              features |-> [i \in DOMAIN encoded |-> FloatOrZero(encoded[i])]]

\* The bodies whose gender, hypertension and bmi range over FeatureValues.
FeatureDicts ==
    {[c \in Range(feature_order) |->
         CASE c = "gender" -> g
           [] c = "hypertension" -> h
           [] c = "bmi" -> b
           [] OTHER -> [type |-> "str", str |-> "45"]] :
       g \in FeatureValues, h \in FeatureValues, b \in FeatureValues}

PoisoningFeatures ==
    /\ \E feature_dict \in FeatureDicts :
        LET built == build_features(feature_dict) IN
        call' = [op |-> "_run_poisoning_check", feature_dict |-> feature_dict,
                 raised |-> built.raised, features |-> built.features]
    /\ UNCHANGED <<run, patients, patients_plain, security_logs, nsub, faults,
                   hospital_a_patients, hospital_b_patients>>

NextVector == PoisoningFeatures

SpecVector == Init /\ [][NextVector]_vars

(***************************************************************************)
(* Properties                                                              *)
(***************************************************************************)
IsPrefix(s, t) == Len(s) <= Len(t) /\ \A i \in 1..Len(s) : s[i] = t[i]

Last(s) == s[Len(s)]

Done(r) == run[r].pc = "done"

CollectionsUntouched(r) ==
    /\ patients = run[r].before.patients
    /\ patients_plain = run[r].before.patients_plain
    /\ run[r].wrote = {}

\* C1: in every run the stages attempted so far are an initial part of
\* poisoning, extraction, prediction, persistence: the poisoning check is
\* attempted before the extraction check and that before the prediction, and
\* no stage is attempted unless every earlier one was.
C1_GateOrder == \A r \in Workers : IsPrefix(run[r].attempted, StageOrder)

C1_Witness ==
    \E r \in Workers : Done(r) /\ run[r].status = 201 /\ run[r].attempted = StageOrder

\* C2 as stated: when the poisoning gate blocks, the run halts with 403, the
\* extraction gate is never called, no prediction is made, nothing is written
\* to patients or patients_plain, and exactly one audit entry, the poisoning
\* block, is appended for the submission.
C2_PoisonBlockOneEntry ==
    \A r \in Workers :
        run[r].poisoning_flag = "True" =>
            /\ Done(r) /\ run[r].status = 403
            /\ run[r].attempted = <<"poisoning">>
            /\ run[r].pred = -1
            /\ CollectionsUntouched(r)
            /\ run[r].logged = <<"poisoning_check">>

\* C2 amended: when the poisoning gate blocks, the run halts with 403, the
\* extraction gate is never called, no prediction is made and nothing is
\* written to patients or patients_plain; the only audit write of the run is
\* the poisoning block: exactly that entry is appended, with is_attack true,
\* unless its write fails, and then none is appended.
C2_PoisonBlockShortCircuit ==
    \A r \in Workers :
        run[r].poisoning_flag = "True" =>
            /\ Done(r) /\ run[r].status = 403
            /\ run[r].attempted = <<"poisoning">>
            /\ run[r].pred = -1
            /\ CollectionsUntouched(r)
            /\ Len(run[r].logged) + run[r].lost = 1
            /\ run[r].lost = 0 =>
                   /\ run[r].logged = <<"poisoning_check">>
                   /\ security_logs # <<>>
                   /\ Last(security_logs).event_type = "poisoning_check"
                   /\ Last(security_logs).is_attack

C2_Witness ==
    \E r \in Workers :
        /\ run[r].poisoning_flag = "True" /\ Done(r) /\ run[r].status = 403
        /\ run[r].logged = <<"poisoning_check">>
        /\ run[r].before.patients # <<>>

\* C3: when the extraction gate reports an attack the run halts at once with
\* 403, and when either gate raises it halts at once with 500; in each case
\* the stages attempted end with that gate, no prediction is made and neither
\* collection is written.
C3_GateFailureHalts ==
    \A r \in Workers :
        /\ run[r].poisoning_flag = "raised" =>
               /\ Done(r) /\ run[r].status = 500
               /\ run[r].attempted = <<"poisoning">>
               /\ run[r].pred = -1 /\ CollectionsUntouched(r)
        /\ run[r].is_attack = "raised" =>
               /\ Done(r) /\ run[r].status = 500
               /\ run[r].attempted = <<"poisoning", "extraction">>
               /\ run[r].pred = -1 /\ CollectionsUntouched(r)
        /\ run[r].is_attack = "True" =>
               /\ Done(r) /\ run[r].status = 403
               /\ run[r].attempted = <<"poisoning", "extraction">>
               /\ run[r].pred = -1 /\ CollectionsUntouched(r)

C3_Witness ==
    \E r \in Workers :
        /\ run[r].is_attack = "True" /\ Done(r) /\ run[r].status = 403
        /\ run[r].before.patients # <<>>

\* C4: however a run ends, the audit entries it appended are as many as the
\* stages it attempted (stated for the runs none of whose audit writes
\* failed).
C4_AuditCompleteness ==
    \A r \in Workers :
        run[r].lost = 0 => Len(run[r].logged) = Len(run[r].attempted)

\* C5: a submission with no JSON body, or with a required field absent or
\* blank, is answered 400 with no gate called, no audit entry appended and no
\* collection written.
C5_ValidationShortCircuit ==
    \A r \in Workers :
        (Done(r) /\ (run[r].kind = "none" \/ Missing(run[r].data) # <<>>)) =>
            /\ run[r].status = 400
            /\ run[r].attempted = <<>>
            /\ run[r].logged = <<>>
            /\ CollectionsUntouched(r)

\* C6: a submission with every required field present, one of whose medical
\* features is not coercible to a number, is answered 400 and the poisoning
\* gate is not run on it.
C6_NonCoercibleIsValidationFailure ==
    \A r \in Workers :
        (/\ Done(r) /\ run[r].kind = "object"
         /\ Missing(run[r].data) = <<>>
         /\ CoercionFails(run[r].data)) =>
            /\ run[r].status = 400
            /\ run[r].attempted = <<>>

\* C7: no two records of patients share an id_hash, and after a submission
\* answered 201 the collection holds one record for its id_hash, carrying
\* that submission's medical values and predicted label.
C7_UpsertLatest ==
    /\ \A i, j \in DOMAIN patients :
           patients[i].NIC_Hashed = patients[j].NIC_Hashed => i = j
    /\ \A r \in Workers :
           (Done(r) /\ run[r].status = 201) =>
               \E i \in DOMAIN patients :
                   patients[i] = patient_document(Record(run[r].data, run[r].pred))

\* C8: patients_plain holds at most one summary for each id_hash.
C8_OneSummaryPerHash ==
    \A i, j \in DOMAIN patients_plain :
        patients_plain[i].NIC_Hashed = patients_plain[j].NIC_Hashed => i = j

\* C9: a finished submission has written both its full record and its
\* summary, or neither.
C9_BothOrNeither ==
    \A r \in Workers :
        Done(r) => (("record" \in run[r].wrote) <=> ("summary" \in run[r].wrote))

\* C10: whenever the answer is 201, a full record for the submission's
\* id_hash has been written to patients.
C10_SavedMeansWritten ==
    \A r \in Workers :
        run[r].status = 201 =>
            /\ "record" \in run[r].wrote
            /\ Matching(patients, hash_text(run[r].data["NIC"])) # {}

\* C11: when encrypt_vector fails for any of NIC, Name, Address, the run
\* writes no record: patients is as it was when the request arrived, the
\* record already held for that id_hash included, and no stored record ever
\* carries a missing ciphertext.
CiphertextFields == {"NIC_Encrypted", "Name_Encrypted", "Address_Encrypted"}

C11_EncodingFailsClosed ==
    /\ \A r \in Workers :
           run[r].enc_failed # {} =>
               /\ patients = run[r].before.patients
               /\ "record" \notin run[r].wrote
    /\ \A i \in DOMAIN patients :
           \A f \in CiphertextFields : patients[i][f] # "None"

C11_Witness ==
    \E r \in Workers :
        /\ run[r].enc_failed # {} /\ Done(r)
        /\ Matching(patients, hash_text(run[r].data["NIC"])) # {}

\* C12: every audit entry written because a stage (poisoning, extraction,
\* prediction, persistence) raised carries is_attack = true.
StageErrorEvents ==
    {"poisoning_check_error", "extraction_check_error",
     "prediction_error", "record_creation_error"}

C12_StageErrorsAuditedAsAttack ==
    \A i \in DOMAIN security_logs :
        security_logs[i].event_type \in StageErrorEvents => security_logs[i].is_attack

\* C13: when a run ends in an except block, the error text of its response
\* does not contain the text of the exception.
Contains(s, t) ==
    \E i \in 1..(Len(s) - Len(t) + 1) : SubSeq(s, i, i + Len(t) - 1) = t

C13_NoExceptionTextInResponse ==
    \A r \in Workers :
        run[r].caught # "" => ~Contains(run[r].error, ExceptionText)

\* C14: every response with status 403 carries an alert and the score of the
\* gate that rejected.
ScoreKeys == {"mse", "score", "probability"}

C14_RejectionCarriesScore ==
    \A r \in Workers :
        run[r].status = 403 =>
            /\ "alert" \in run[r].keys
            /\ run[r].keys \cap ScoreKeys # {}

\* C15: the status of a finished run and the patient data it wrote are those
\* its submission, the gates, the model and the patient store determine,
\* whatever became of its audit writes: ExpectedStatus and the expected
\* collections do not mention logged, lost or security_logs.
ExpectedStatus(rec) ==
    IF rec.kind = "none" THEN 400
    ELSE IF rec.kind = "scalar" THEN 500
    ELSE IF Missing(rec.data) # <<>> THEN 400
    ELSE IF rec.poisoning_flag = "raised" THEN 500
    ELSE IF rec.poisoning_flag = "True" THEN 403
    ELSE IF CoercionFails(rec.data) THEN 500
    ELSE IF rec.is_attack = "raised" THEN 500
    ELSE IF rec.is_attack = "True" THEN 403
    ELSE IF rec.caught \in {"prediction", "persistence"} THEN 500
    ELSE 201

C15_AuditFailuresKeepOutcome ==
    \A r \in Workers :
        Done(r) =>
            /\ run[r].status = ExpectedStatus(run[r])
            /\ IF run[r].status = 201
               THEN LET record == Record(run[r].data, run[r].pred) IN
                    /\ patients = update_patient_record(run[r].before.patients,
                                                        record, run[r].enc_failed)
                    /\ patients_plain =
                           IF "summary" \in run[r].wrote
                           THEN Append(run[r].before.patients_plain, plain_summary(record))
                           ELSE run[r].before.patients_plain
               ELSE CollectionsUntouched(r)

C15_Witness ==
    \E r \in Workers :
        /\ Done(r) /\ run[r].status = 201
        /\ run[r].lost = Len(StageOrder) /\ run[r].logged = <<>>
        /\ run[r].wrote = {"record", "summary"}
        /\ run[r].before.patients # <<>>

\* The values the submissions carry in the given fields.
RawValues(fields) ==
    UNION {{b.data[f] : f \in fields \cap DOMAIN b.data} : b \in Bodies}

\* The text values of a stored document (diabetes, mse and is_attack are a
\* number, a number and a flag).
TextOf(doc) == {doc[f] : f \in (DOMAIN doc) \ {"diabetes", "mse", "is_attack"}}

NonePersists(raw) ==
    /\ \A i \in DOMAIN patients : TextOf(patients[i]) \cap raw = {}
    /\ \A i \in DOMAIN patients_plain : TextOf(patients_plain[i]) \cap raw = {}
    /\ \A i \in DOMAIN security_logs : TextOf(security_logs[i]) \cap raw = {}

\* C19 as stated: no document of patients, patients_plain or security_logs
\* holds the raw NIC, Name or Address of a submission.
C19_NoRawIdentityPersisted == NonePersists(RawValues(IdentityFields))

\* C19 amended: no document of patients, patients_plain or security_logs
\* holds the raw NIC or the raw Address of a submission; the raw Name is
\* stored, as name in the summary and as patient_name in the record_created
\* audit entry.
C19_NoRawIdentifierPersisted ==
    /\ NonePersists(RawValues({"NIC", "Address"}))
    /\ \A i \in DOMAIN patients_plain :
           patients_plain[i].name \in RawValues({"Name"})
    /\ \A i \in DOMAIN security_logs :
           security_logs[i].event_type = "record_created" =>
               security_logs[i].additional_info \in RawValues({"Name"})

C19_Witness ==
    \E r \in Workers :
        /\ Done(r) /\ run[r].status = 201 /\ "Address" \in DOMAIN run[r].data
        /\ run[r].wrote = {"record", "summary"}
        /\ "record_created" \in Range(run[r].logged)

\* C16: when the concurrent submissions for one identifier have all been
\* answered 201, patients holds exactly one record for its id_hash, and that
\* record is the document of one of the submissions.
C16_OneRecordOneVersion ==
    (\A r \in Workers : Done(r) /\ run[r].status = 201) =>
        \A r \in Workers :
            LET m == Matching(patients, hash_text(run[r].data["NIC"])) IN
            /\ Cardinality(m) = 1
            /\ \E q \in Workers, i \in m :
                   patients[i] = patient_document(Record(run[q].data, run[q].pred))

\* C17 as stated: hash_text gives equal digests for equal values and
\* different digests for any two different values, compared as the callers
\* pass them.
C17_DistinctValuesDistinctHashes ==
    call.op = "hash_text" =>
        /\ call.v1 = call.v2 => call.h1 = call.h2
        /\ call.v1 # call.v2 => call.h1 # call.h2

\* C17 amended: hash_text gives equal digests for equal values and different
\* digests for any two values whose string forms str(v) differ; two different
\* values with the same string form, the number 123 and the string "123",
\* have the same digest.
C17_DistinctTextsDistinctHashes ==
    call.op = "hash_text" =>
        /\ call.v1 = call.v2 => call.h1 = call.h2
        /\ PyStr(call.v1) # PyStr(call.v2) <=> call.h1 # call.h2

C17_Witness ==
    /\ call.op = "hash_text"
    /\ call.v1.type = "str" /\ call.v2.type = "str"
    /\ StripsToEmpty(call.v1.str) /\ StripsToEmpty(call.v2.str)
    /\ call.h1 # call.h2

\* C18: a lookup of a patient finds a document exactly when some document
\* carries the id_hash of the identifier looked up: mpc_predict answers 200
\* if a hospital collection holds a document whose NIC_Hashed is the hash of
\* the NIC asked for, and 404 if none does.
HoldsHash(coll, nic) ==
    \E i \in DOMAIN coll : coll[i].NIC_Hashed = hash_text(nic)

C18_LookupsKeyOnHash ==
    call.op = "mpc_predict" =>
        (call.status = 200 <=>
            \/ HoldsHash(hospital_a_patients, call.nic)
            \/ HoldsHash(hospital_b_patients, call.nic))

\* C20: the common hashes of two lists are the same with the lists swapped,
\* a set intersected with itself is that set, and lists with the same
\* elements, in any order and any number of times, give the same result.
SameElements(s, t) ==
    /\ \A i \in DOMAIN s : \E j \in DOMAIN t : s[i] = t[j]
    /\ \A j \in DOMAIN t : \E i \in DOMAIN s : s[i] = t[j]

HashedFiles == {[i \in DOMAIN rows |-> hash_text(rows[i].NIC)] : rows \in CsvFiles}

C20_IntersectionLaws ==
    call.op = "psi_demo" =>
        LET A == PySet(call.hashed_nics_a)
            B == PySet(call.hashed_nics_b)
        IN  /\ call.common_hashed_nics = intersection(B, A)
            /\ intersection(A, A) = A
            /\ intersection(call.common_hashed_nics, call.common_hashed_nics)
                   = call.common_hashed_nics
            /\ \A la \in HashedFiles, lb \in HashedFiles :
                   (SameElements(la, call.hashed_nics_a)
                        /\ SameElements(lb, call.hashed_nics_b)) =>
                       intersection(PySet(la), PySet(lb)) = call.common_hashed_nics

C20_Witness ==
    /\ call.op = "psi_demo"
    /\ Len(call.hashed_nics_a) > Cardinality(PySet(call.hashed_nics_a))
    /\ call.common_hashed_nics # {}
    /\ call.common_hashed_nics # PySet(call.hashed_nics_a)
    /\ call.common_hashed_nics # PySet(call.hashed_nics_b)

\* C21: the common hashes are exactly the hashes that occur in both lists:
\* for the files of three patients sharing two they are the two shared
\* hashes, and for the two generated hospital files they are ten, the hashes
\* of common_nics.
InBoth(la, lb) ==
    {la[i] : i \in {k \in DOMAIN la : \E j \in DOMAIN lb : la[k] = lb[j]}}

HashedRows(rows) == [i \in DOMAIN rows |-> hash_text(rows[i].NIC)]

C21_ExactIntersection ==
    call.op = "psi_demo" =>
        /\ call.common_hashed_nics = InBoth(call.hashed_nics_a, call.hashed_nics_b)
        /\ (call.hashed_nics_a = HashedRows(ThreeRowsA)
                /\ call.hashed_nics_b = HashedRows(ThreeRowsB)) =>
               call.common_hashed_nics =
                   {hash_text("199012345V"), hash_text("199123456V")}
        /\ (call.hashed_nics_a = HashedRows(hospital_A_csv)
                /\ call.hashed_nics_b = HashedRows(hospital_B_csv)) =>
               /\ Cardinality(call.common_hashed_nics) = Len(common_nics)
               /\ call.common_hashed_nics =
                      {hash_text(common_nics[i]) : i \in DOMAIN common_nics}

C21_Witness ==
    /\ call.op = "psi_demo"
    /\ call.hashed_nics_a = HashedRows(hospital_A_csv)
    /\ call.hashed_nics_b = HashedRows(hospital_B_csv)
    /\ Len(call.hashed_nics_a) = Len(common_nics) + Len(hospital_a_unique_nics)
    /\ Cardinality(call.common_hashed_nics) = Len(common_nics)

\* C22: perform_psi, given two arrays of raw identifiers, answers 200 with
\* the identifiers whose hashes are in both, common_count being their number,
\* for every pair of arrays, an empty array included.
C22_PsiEndpointReturnsIntersection ==
    (call.op = "perform_psi" /\ call.body = "object") =>
        /\ call.status = 200
        /\ call.common_count = Cardinality(call.common_nics)
        /\ call.common_nics =
               {call.nics_a[i] : i \in {k \in DOMAIN call.nics_a :
                   \E j \in DOMAIN call.nics_b :
                       hash_text(call.nics_a[k]) = hash_text(call.nics_b[j])}}

\* C30: once the hospital files are uploaded, get_hospital_data answers 200
\* and lists an identifier for every document, and mpc_predict answers 200
\* for the NIC of every uploaded patient.
C30_UploadedPatientsAreFound ==
    /\ call.op = "get_hospital_data" =>
           /\ call.status = 200
           /\ Len(call.all_nics_a) = Len(hospital_a_patients)
           /\ Len(call.all_nics_b) = Len(hospital_b_patients)
    /\ (call.op = "mpc_predict"
            /\ (HoldsHash(hospital_a_patients, call.nic)
                    \/ HoldsHash(hospital_b_patients, call.nic))) =>
           call.status = 200

C24_StrictThresholds ==
    \A r \in Workers :
        /\ run[r].poisoning_flag \in {"True", "False"} =>
               /\ run[r].poisoning_flag = "True"
                      <=> run[r].poison_prob > poisoning_threshold
               /\ run[r].status = 403 /\ run[r].is_attack = "unset"
                      <=> run[r].poison_prob > poisoning_threshold
        /\ run[r].is_attack \in {"True", "False"} =>
               /\ run[r].is_attack = "True" <=> run[r].mse > threshold
               /\ run[r].status = 403 <=> run[r].mse > threshold

C24_Witness ==
    \E r \in Workers :
        /\ run[r].poison_prob = poisoning_threshold
        /\ run[r].is_attack = "False" /\ run[r].mse = threshold
        /\ Done(r) /\ run[r].status = 201

\* C27: no run calls load_context: the context loaded when the process
\* started serves every submission.
C27_ContextLoadedOnce ==
    \A r \in Workers : run[r].context_loads = 0

\* C28: every step leaves the entries security_logs already holds in place:
\* the collection before the step is an initial part of the collection after.
C28_AuditAppendOnly == [][IsPrefix(security_logs, security_logs')]_vars

C28_Witness ==
    \E r \in Workers :
        /\ Done(r) /\ run[r].logged # <<>>
        /\ Len(security_logs) > Len(run[r].logged)

\* C29: a run that ends in a validation failure, a gate rejection or an
\* error of a gate or of the prediction has written neither collection: both
\* are as they were when the request arrived.
C29_FailedRunWritesNothing ==
    \A r \in Workers :
        (\/ Done(r) /\ (run[r].kind = "none" \/ Missing(run[r].data) # <<>>)
         \/ run[r].poisoning_flag \in {"True", "raised"}
         \/ run[r].is_attack \in {"True", "raised"}
         \/ run[r].caught = "prediction") =>
            /\ patients = run[r].before.patients
            /\ patients_plain = run[r].before.patients_plain
            /\ run[r].wrote = {}

C29_Witness ==
    \E r \in Workers :
        /\ Done(r) /\ run[r].caught = "prediction" /\ run[r].status = 500
        /\ \E i \in Matching(patients, hash_text(run[r].data["NIC"])) :
               patients[i].bmi # run[r].data["bmi"]

\* C26: a run in flight has no outcome yet, has called each stage before its
\* position once and none after it, and can take its next step; a finished
\* run has exactly one of the outcomes 201, 400, 403, 500, and no stage
\* occurs twice among the stages a run called.
InFlight == {"poison", "extract", "predict", "persist", "summary"}

StagesBefore(pc) ==
    CASE pc = "poison" -> 0
      [] pc = "extract" -> 1
      [] pc = "predict" -> 2
      [] pc = "persist" -> 3
      [] pc = "summary" -> 4

StepOf(r) ==
    \/ PoisoningCheck(r)
    \/ ExtractionCheck(r)
    \/ Prediction(r)
    \/ SaveRecord(r)
    \/ InsertSummary(r)

C26_OneOutcomeNoRetry ==
    \A r \in Workers :
        /\ run[r].pc \in InFlight =>
               /\ run[r].status = 0
               /\ run[r].attempted = SubSeq(StageOrder, 1, StagesBefore(run[r].pc))
               /\ ENABLED StepOf(r)
        /\ Done(r) =>
               /\ run[r].status \in {201, 400, 403, 500}
               /\ run[r].status = 201 => run[r].attempted = StageOrder
               /\ run[r].status = 400 => run[r].attempted = <<>>
               /\ run[r].status = 403 =>
                      (run[r].poisoning_flag = "True" \/ run[r].is_attack = "True")
               /\ run[r].status = 500 => run[r].caught # ""
        /\ \A i, j \in DOMAIN run[r].attempted :
               run[r].attempted[i] = run[r].attempted[j] => i = j

C26_Witness ==
    \E r \in Workers :
        /\ Done(r) /\ run[r].status = 500 /\ run[r].caught = "persistence"
        /\ run[r].attempted = StageOrder

\* C25: for every submission _run_poisoning_check builds a vector with one
\* entry for each feature of feature_order and does not raise; the entry of a
\* feature that is absent, not in its table or list, or not a number is 0.
InEncoder(col, val) ==
    /\ val.type = "str"
    /\ \/ encoders[col].kind = "dict" /\ val.str \in DOMAIN encoders[col].dict
       \/ encoders[col].kind = "list" /\ val.str \in Range(encoders[col].list)

C25_VectorForEverySubmission ==
    call.op = "_run_poisoning_check" =>
        /\ ~call.raised
        /\ Len(call.features) = Len(feature_order)
        /\ \A i \in DOMAIN feature_order :
               LET col == feature_order[i]
                   val == call.feature_dict[col]
               IN  (\/ val.type = "absent"
                    \/ col \in DOMAIN encoders /\ ~InEncoder(col, val)
                    \/ col \notin DOMAIN encoders
                           /\ ~(val.type = "str" /\ CanFloat(val.str))) =>
                       call.features[i] = 0

====
